---- MODULE Spec2Model ----
(***************************************************************************)
(* The two generators of src/src/App.tsx and the metrics their charts      *)
(* compute from the generated data:                                        *)
(*   - the time-series variant (lines 1-212): generateTradingData builds   *)
(*     100 price points by a biased random walk, TradingChart derives the  *)
(*     current price and its percentage change;                            *)
(*   - the bar-chart variant (lines 214-480): generateTradingData builds   *)
(*     8-12 calendar trades and sorts them, TradingChart derives the       *)
(*     long/short counts and the average funding.                          *)
(*                                                                         *)
(* Numbers.  Math.random() returns k / RandDen for a numerator k.  Every   *)
(* quantity the code derives from it is kept as an exact integer numerator *)
(* over a fixed denominator (stated at each definition); the running price *)
(* is kept in units of 1 / (CentsPerUnit * SubCents) and a product is      *)
(* truncated to that unit, which stands for the rounding of a double.      *)
(* An instant is a Date value [day, ms]: whole days since the epoch and    *)
(* milliseconds into that day (day * MsPerDay + ms is the value getTime()  *)
(* returns; as one number it exceeds TLC's 32-bit integers).               *)
(*                                                                         *)
(* Environment.  The random source and the wall clock are periodic streams *)
(* chosen before the call: the n-th call of Math.random() returns          *)
(* rng[n mod StreamLen], and the clock advances by ticks[i mod ClockLen]   *)
(* milliseconds after loop iteration i.                                    *)
(*                                                                         *)
(* Left out: the fields `time` and `dateLabel` (locale formatting for the  *)
(* axis) and everything under the JSX return (rendering).                  *)
(***************************************************************************)
EXTENDS Integers, Sequences, FiniteSets

VARIABLES
  variant,       \* "series" (lines 1-212) or "bars" (lines 214-480)
  pc,            \* "start", "loop", "sort", "generated", "rendered"
  pair,          \* the pair argument of generateTradingData / TradingChart
  rng,           \* the stream of numerators Math.random() returns
  calls,         \* how many times Math.random() has been called
  clock,         \* the wall clock, a Date value
  ticks,         \* the stream of clock advances, in ms
  i,             \* series: loop index (line 18)
  trend,         \* series: const trend (line 16)
  currentPrice,  \* series: let currentPrice (line 15)
  data,          \* series: const data (line 12); TradingChart's data (line 60)
  now,           \* bars: const now (line 245)
  numTrades,     \* bars: const numTrades (line 249)
  t,             \* bars: loop index (line 251)
  trades,        \* bars: const trades (line 242); TradingChart's trades (line 309)
  metrics        \* what TradingChart computes before rendering

vars == <<variant, pc, pair, rng, calls, clock, ticks, i, trend, currentPrice,
          data, now, numTrades, t, trades, metrics>>

seriesVars == <<i, trend, currentPrice, data>>
barsVars == <<now, numTrades, t, trades>>

----------------------------------------------------------------------------
(* Bounds of the model *)

\* Math.random() returns one of 0/RandDen .. (RandDen-1)/RandDen.
RandDen == 100
\* Period of the random stream.
StreamLen == 5
\* Period of the clock-advance stream.
ClockLen == 1
\* The running price is kept to 1/SubCents of a cent.
SubCents == 10
\* Sizes of the collections handed to TradingChart in SpecMetrics.
MaxPoints == 3
MaxTrades == 2

\* The numerators the random stream is made of: the least value and the
\* greatest value below 1.
RandomDraws == {0, RandDen - 1}
\* The clock advances the stream is made of, in ms.
ClockSteps == {0, 1}
\* The instants a call can start at: a midnight, a noon, the last ms of a day.
MsPerDay == 24 * 60 * 60 * 1000
NowDraws == {[day |-> 20762, ms |-> 0],
             [day |-> 20762, ms |-> MsPerDay \div 2],
             [day |-> 20762, ms |-> MsPerDay - 1]}

----------------------------------------------------------------------------
(* Program constants *)

tradingPairs == {"BTC-USDT", "ETH-USDT", "XMR-USDT"}
\* Math.round(x * 100) / 100: a stored price has CentsPerUnit steps per unit.
CentsPerUnit == 100
\* for (let i = 0; i < 100; i++)
NumPoints == 100
\* 15 * 60 * 1000
StepMs == 15 * 60 * 1000
\* 30 * 24 * 60 * 60 * 1000, in days
WindowDays == 30
\* const fee = 1.20, in cents
fee == 120

----------------------------------------------------------------------------
(* Date *)

\* A Date of `n` ms after the start of day `d` (n may be negative or exceed a day).
MakeDate(d, n) == [day |-> d + (n \div MsPerDay), ms |-> n % MsPerDay]

\* date.getTime() + n
DatePlusMs(date, n) == MakeDate(date.day, date.ms + n)

\* date.getTime() + n * 24 * 60 * 60 * 1000
DatePlusDays(date, n) == [day |-> date.day + n, ms |-> date.ms]

\* a.getTime() - b.getTime()
DateDiff(a, b) == (a.day - b.day) * MsPerDay + (a.ms - b.ms)

\* Date.prototype.toISOString: the date and the time of day, field by field.
toISOString(date) ==
  [date |-> date.day,
   hh   |-> date.ms \div 3600000,
   mm   |-> (date.ms \div 60000) % 60,
   ss   |-> (date.ms \div 1000) % 60,
   sss  |-> date.ms % 1000]

\* new Date(isoString)
ParseISO(s) ==
  [day |-> s.date, ms |-> ((s.hh * 60 + s.mm) * 60 + s.ss) * 1000 + s.sss]

----------------------------------------------------------------------------
(* Math.random and numbers *)

\* The value the n-th call (from 0) of Math.random() returns, as a numerator.
Random(n) == rng[(n % StreamLen) + 1]

\* A JavaScript number that may have come out of a division.
Finite(n, d) == [kind |-> "finite", num |-> n, den |-> d]
NaN == [kind |-> "NaN", num |-> 0, den |-> 1]
Infinity == [kind |-> "Infinity", num |-> 0, den |-> 1]
NegInfinity == [kind |-> "-Infinity", num |-> 0, den |-> 1]

\* n / d for integers n, d (IEEE 754: x/0 is NaN, Infinity or -Infinity).
JsDivide(n, d) ==
  IF d # 0 THEN Finite(n, d)
  ELSE IF n = 0 THEN NaN
  ELSE IF n > 0 THEN Infinity
  ELSE NegInfinity

\* null, and a value that is not null
Null == <<>>
Some(v) == <<v>>

\* pair === "BTC-USDT" ? 43000 : pair === "ETH-USDT" ? 2500 : 180
basePrice(p) ==
  IF p = "BTC-USDT" THEN 43000 ELSE IF p = "ETH-USDT" THEN 2500 ELSE 180

----------------------------------------------------------------------------
(* Time-series variant: generateTradingData, lines 10-42 *)

\* Units of the running price per unit of currency.
PriceUnits == CentsPerUnit * SubCents
\* Denominator of `change`.
ChangeDen == 200 * RandDen * RandDen

\* (Math.random() - 0.5) * 0.02, as a numerator over 100 * RandDen
Trend(r) == 2 * r - RandDen

\* 0.02 + Math.random() * 0.03, as a numerator over 100 * RandDen
Volatility(r) == 2 * RandDen + 3 * r

\* (Math.random() - 0.5) * volatility + trend, as a numerator over ChangeDen
Change(r, volatility, tr) == (2 * r - RandDen) * volatility + 2 * RandDen * tr

\* floor(price * chg / ChangeDen), computed without leaving 32 bits
TimesChange(price, chg) ==
  LET c1 == 200 * RandDen
      c2 == RandDen
      a  == price \div ChangeDen
      b  == price % ChangeDen
      b1 == b \div c2
      b0 == b % c2
  IN  a * chg + ((b1 * chg + ((b0 * chg) \div c2)) \div c1)

\* A mutant of StepPrice: currentPrice * change, the "1 +" forgotten.
StepPriceNoOne(price, chg) == TimesChange(price, chg)

\* Math.round(x * 100) / 100 for x = price / PriceUnits, in cents
\* (Math.round rounds a half up: floor(x + 0.5)).
RoundToCents(price) == (price + (SubCents \div 2)) \div SubCents

\* A mutant of StepPrice: the walk continues from the rounded price.
StepPriceRounded(price, chg) ==
  RoundToCents(price) * SubCents + TimesChange(RoundToCents(price) * SubCents, chg)

\* currentPrice * (1 + change)
StepPrice(price, chg) == price + TimesChange(price, chg)

\* Math.random() > (0.95 - Math.abs(change) * 50), both sides times ChangeDen
HasTrade(r, chg) ==
  r * 200 * RandDen > 190 * RandDen * RandDen - (IF chg < 0 THEN -chg ELSE chg) * 50

\* Math.round((Math.random() * 1000 + 100) * 100) / 100, in cents
Volume(r) == ((2 * 100000 * r + RandDen) \div (2 * RandDen)) + 10000

\* new Date(Date.now() - (99 - i) * 15 * 60 * 1000).toISOString()
Timestamp(nowDate, idx) ==
  toISOString(DatePlusMs(nowDate, 0 - ((NumPoints - 1) - idx) * StepMs))

\* const basePrice ...; const data = []; let currentPrice = basePrice;
\* const trend = (Math.random() - 0.5) * 0.02;
SeriesBegin ==
  /\ variant = "series" /\ pc = "start"
  /\ data' = <<>>
  /\ currentPrice' = basePrice(pair) * PriceUnits
  /\ trend' = Trend(Random(calls))
  /\ calls' = calls + 1
  /\ i' = 0
  /\ pc' = "loop"
  /\ UNCHANGED <<variant, pair, rng, clock, ticks, barsVars, metrics>>

\* One iteration of the for loop, lines 18-39.
SeriesLoop ==
  /\ variant = "series" /\ pc = "loop" /\ i < NumPoints
  /\ LET volatility == Volatility(Random(calls))
         change == Change(Random(calls + 1), volatility, trend)
         price == StepPrice(currentPrice, change)
         hasOpenTrade == HasTrade(Random(calls + 2), change)
         hasCloseTrade == HasTrade(Random(calls + 3), change)
     IN  /\ currentPrice' = price
         /\ data' = Append(data,
              [timestamp  |-> Timestamp(clock, i),
               price      |-> RoundToCents(price),
               openTrade  |-> IF hasOpenTrade THEN Some(price) ELSE Null,
               closeTrade |-> IF hasCloseTrade THEN Some(price) ELSE Null,
               volume     |-> Volume(Random(calls + 4))])
  /\ calls' = calls + 5
  /\ clock' = DatePlusMs(clock, ticks[(i % ClockLen) + 1])
  /\ i' = i + 1
  /\ pc' = IF i + 1 < NumPoints THEN "loop" ELSE "generated"
  /\ UNCHANGED <<variant, pair, rng, ticks, trend, barsVars, metrics>>

----------------------------------------------------------------------------
(* Time-series variant: TradingChart, lines 59-67 *)

\* data[k]?.price || 0, for the 0-based index k
PriceAt(d, k) == IF k >= 0 /\ k < Len(d) THEN d[k + 1].price ELSE 0

\* (priceChange / previousPrice) * 100
PriceChangePercent(priceChange, previousPrice) ==
  LET q == JsDivide(priceChange, previousPrice)
  IN  IF q.kind = "finite" THEN Finite(q.num * 100, q.den) ELSE q

SeriesMetrics(d) ==
  LET cur == PriceAt(d, Len(d) - 1)
      prev == PriceAt(d, Len(d) - 2)
  IN  [currentPrice       |-> cur,
       previousPrice      |-> prev,
       priceChange        |-> cur - prev,
       priceChangePercent |-> PriceChangePercent(cur - prev, prev),
       openTrades         |-> Cardinality({k \in 1..Len(d) : d[k].openTrade # Null}),
       closeTrades        |-> Cardinality({k \in 1..Len(d) : d[k].closeTrade # Null})]

SeriesChart ==
  /\ variant = "series" /\ pc = "generated"
  /\ metrics' = SeriesMetrics(data)
  /\ pc' = "rendered"
  /\ UNCHANGED <<variant, pair, rng, calls, clock, ticks, seriesVars, barsVars>>

----------------------------------------------------------------------------
(* Bar-chart variant: generateTradingData, lines 240-291 *)

\* Denominator of fundingTotal and profitLoss.
FundingDen == 2 * RandDen

\* new Date(now.getTime() - 30 * 24 * 60 * 60 * 1000)
ThirtyDaysAgo(nowDate) == DatePlusDays(nowDate, 0 - WindowDays)

\* Math.floor(Math.random() * 5) + 8
NumTrades(r) == ((r * 5) \div RandDen) + 8

\* Math.floor(Math.random() * 25)
StartDayOffset(r) == (r * 25) \div RandDen

\* A mutant of DurationDays: the "+ 1" forgotten.
DurationDaysFromZero(r) == (r * 7) \div RandDen

\* Math.floor(Math.random() * 7) + 1
DurationDays(r) == ((r * 7) \div RandDen) + 1

\* Math.random() > 0.5 ? 'LONG' : 'SHORT'
TradeType(r) == IF 2 * r > RandDen THEN "LONG" ELSE "SHORT"

\* (Math.random() - 0.5) * 3, as a numerator over FundingDen
FundingTotal(r) == 3 * (2 * r - RandDen)

\* A mutant of Periods: two periods a day.
PeriodsTwoADay(durationDays) == durationDays * 2

\* durationDays * 3
Periods(durationDays) == durationDays * 3

\* Math.abs(fundingTotal) * 20 + 20, as a numerator over FundingDen
ProfitLoss(fundingTotal) ==
  (IF fundingTotal < 0 THEN -fundingTotal ELSE fundingTotal) * 20 + 20 * FundingDen

\* basePrice + (Math.random() - 0.5) * basePrice * 0.1, in cents
JitterPrice(p, r) ==
  basePrice(p) * CentsPerUnit + (((2 * r - RandDen) * basePrice(p) * 5) \div RandDen)

\* The object pushed at lines 270-284 for loop index idx, from the six draws
\* of the iteration in the order the code makes them.
NewTrade(idx, nowDate, p, rStart, rDuration, rType, rFunding, rStartPrice, rEndPrice) ==
  LET startDayOffset == StartDayOffset(rStart)
      startDate == DatePlusDays(ThirtyDaysAgo(nowDate), startDayOffset)
      durationDays == DurationDays(rDuration)
      endDate == DatePlusDays(startDate, durationDays)
      fundingTotal == FundingTotal(rFunding)
  IN  [id           |-> idx,
       type         |-> TradeType(rType),
       startTime    |-> toISOString(startDate),
       endTime      |-> toISOString(endDate),
       fundingTotal |-> fundingTotal,
       periods      |-> Periods(durationDays),
       fee          |-> fee,
       startPrice   |-> JitterPrice(p, rStartPrice),
       endPrice     |-> JitterPrice(p, rEndPrice),
       duration     |-> durationDays,
       profitLoss   |-> ProfitLoss(fundingTotal),
       startDay     |-> startDayOffset]

\* The trade of loop index idx when the random stream is read from call n.
TradeAt(idx, n, nowDate, p) ==
  NewTrade(idx, nowDate, p, Random(n), Random(n + 1), Random(n + 2),
           Random(n + 3), Random(n + 4), Random(n + 5))

\* new Date(a.startTime).getTime() - new Date(b.startTime).getTime()
CompareTrades(a, b) == DateDiff(ParseISO(a.startTime), ParseISO(b.startTime))

\* Array.prototype.sort is stable: x goes after every element that does not
\* compare greater than it.
RECURSIVE InsertTrade(_, _)
InsertTrade(sorted, x) ==
  IF sorted = <<>> THEN <<x>>
  ELSE IF CompareTrades(sorted[Len(sorted)], x) <= 0 THEN Append(sorted, x)
  ELSE Append(InsertTrade(SubSeq(sorted, 1, Len(sorted) - 1), x), sorted[Len(sorted)])

RECURSIVE SortFrom(_, _, _)
SortFrom(sorted, s, k) ==
  IF k > Len(s) THEN sorted ELSE SortFrom(InsertTrade(sorted, s[k]), s, k + 1)

\* A mutant of SortTrades: the comparator's operands swapped (b - a).
SortTradesDescending(s) ==
  LET asc == SortFrom(<<>>, s, 1)
  IN  [k \in 1..Len(s) |-> asc[Len(s) + 1 - k]]

\* trades.sort((a, b) => new Date(a.startTime).getTime() - new Date(b.startTime).getTime())
SortTrades(s) == SortFrom(<<>>, s, 1)

\* const now = new Date(); const numTrades = ...; const trades = [];
BarsBegin ==
  /\ variant = "bars" /\ pc = "start"
  /\ now' = clock
  /\ numTrades' = NumTrades(Random(calls))
  /\ calls' = calls + 1
  /\ trades' = <<>>
  /\ t' = 0
  /\ pc' = IF NumTrades(Random(calls)) > 0 THEN "loop" ELSE "sort"
  /\ UNCHANGED <<variant, pair, rng, clock, ticks, seriesVars, metrics>>

\* One iteration of the for loop, lines 251-285.
BarsLoop ==
  /\ variant = "bars" /\ pc = "loop" /\ t < numTrades
  /\ trades' = Append(trades, TradeAt(t, calls, now, pair))
  /\ calls' = calls + 6
  /\ t' = t + 1
  /\ pc' = IF t + 1 < numTrades THEN "loop" ELSE "sort"
  /\ UNCHANGED <<variant, pair, rng, clock, ticks, seriesVars, now, numTrades, metrics>>

\* trades.sort(...); return trades;
BarsSort ==
  /\ variant = "bars" /\ pc = "sort"
  /\ trades' = SortTrades(trades)
  /\ pc' = "generated"
  /\ UNCHANGED <<variant, pair, rng, calls, clock, ticks, seriesVars, now, numTrades, t, metrics>>

----------------------------------------------------------------------------
(* Bar-chart variant: TradingChart, lines 308-313 *)

RECURSIVE SumFunding(_, _)
\* trades.reduce((sum, t) => sum + t.fundingTotal, 0), over s[k..]
SumFunding(s, k) == IF k > Len(s) THEN 0 ELSE s[k].fundingTotal + SumFunding(s, k + 1)

\* trades.reduce(...) / trades.length, fundingTotal being over FundingDen
AvgFunding(s) ==
  LET q == JsDivide(SumFunding(s, 1), Len(s))
  IN  IF q.kind = "finite" THEN Finite(q.num, q.den * FundingDen) ELSE q

BarsMetrics(s) ==
  [longTrades  |-> Cardinality({k \in 1..Len(s) : s[k].type = "LONG"}),
   shortTrades |-> Cardinality({k \in 1..Len(s) : s[k].type = "SHORT"}),
   avgFunding  |-> AvgFunding(s)]

BarsChart ==
  /\ variant = "bars" /\ pc = "generated"
  /\ metrics' = BarsMetrics(trades)
  /\ pc' = "rendered"
  /\ UNCHANGED <<variant, pair, rng, calls, clock, ticks, seriesVars, barsVars>>

----------------------------------------------------------------------------
(* Specifications *)

\* The streams the environment can present.
Streams(S, n) == [1..n -> S]

NoMetrics == [none |-> TRUE]

\* Before TradingChart calls generateTradingData(pair).
Init ==
  /\ variant \in {"series", "bars"}
  /\ pc = "start"
  /\ pair \in tradingPairs
  /\ rng \in Streams(RandomDraws, StreamLen)
  /\ calls = 0
  /\ clock \in NowDraws
  /\ ticks \in Streams(ClockSteps, ClockLen)
  /\ i = 0 /\ trend = 0 /\ currentPrice = 0 /\ data = <<>>
  /\ now = clock /\ numTrades = 0 /\ t = 0 /\ trades = <<>>
  /\ metrics = NoMetrics

Next ==
  \/ SeriesBegin
  \/ SeriesLoop
  \/ SeriesChart
  \/ BarsBegin
  \/ BarsLoop
  \/ BarsSort
  \/ BarsChart

Spec == Init /\ [][Next]_vars

\* The prices, in cents, of the points handed to the time-series TradingChart.
PriceDraws == {100, 250, 18000}

\* TradingChart given a collection of any length from 0 up: the state right
\* after generateTradingData returned, the collection drawn from bounded sets.
InitMetrics ==
  /\ variant \in {"series", "bars"}
  /\ pc = "generated"
  /\ pair = "XMR-USDT"
  /\ rng = [k \in 1..StreamLen |-> 0]
  /\ calls = 0
  /\ clock = [day |-> 20762, ms |-> 0]
  /\ ticks = [k \in 1..ClockLen |-> 0]
  /\ i = 0 /\ trend = 0 /\ currentPrice = 0
  /\ now = clock /\ numTrades = 0 /\ t = 0
  /\ metrics = NoMetrics
  /\ IF variant = "series"
     THEN /\ trades = <<>>
          /\ \E n \in 0..MaxPoints : \E f \in [1..n -> PriceDraws] :
               data = [k \in 1..n |->
                         [timestamp  |-> Timestamp(clock, NumPoints - n + k - 1),
                          price      |-> f[k],
                          openTrade  |-> Null,
                          closeTrade |-> Null,
                          volume     |-> Volume(0)]]
     ELSE /\ data = <<>>
          /\ \E n \in 0..MaxTrades : \E f \in [1..n -> RandomDraws \X RandomDraws] :
               trades = SortTrades([k \in 1..n |->
                          NewTrade(k - 1, now, pair, f[k][1], 0, f[k][2], f[k][2], 0, 0)])

NextMetrics ==
  \/ SeriesChart
  \/ BarsChart

SpecMetrics == InitMetrics /\ [][NextMetrics]_vars

----------------------------------------------------------------------------
(* Claims *)

\* generateTradingData has returned.
Returned == pc \in {"generated", "rendered"}

StartOf(trade) == ParseISO(trade.startTime)
EndOf(trade) == ParseISO(trade.endTime)
InstantOf(point) == ParseISO(point.timestamp)

\* Instant a is not after instant b.
DateLeq(a, b) == a.day < b.day \/ (a.day = b.day /\ a.ms <= b.ms)

\* C1: every trade the bar-chart generateTradingData returns starts strictly
\* before it ends, covers a positive number of periods and carries the fee
\* 1.20 (120 cents), whatever the pair and the random draws.
C1_TradesWellFormed ==
  (variant = "bars" /\ Returned) =>
    \A k \in 1..Len(trades) :
      /\ DateDiff(EndOf(trades[k]), StartOf(trades[k])) > 0
      /\ trades[k].periods > 0
      /\ trades[k].fee = 120

\* A full list of 12 trades was returned, one of them of the shortest duration.
C1_Witness ==
  /\ variant = "bars" /\ pc = "generated"
  /\ Len(trades) = 12
  /\ \E k \in 1..Len(trades) : trades[k].duration = 1

\* C2 (as claimed): every returned trade starts and ends inside the look-back
\* window [now - 30 days, now].
C2_InsideWindow ==
  (variant = "bars" /\ Returned) =>
    \A k \in 1..Len(trades) :
      /\ DateLeq(ThirtyDaysAgo(now), StartOf(trades[k]))
      /\ DateLeq(StartOf(trades[k]), now)
      /\ DateLeq(ThirtyDaysAgo(now), EndOf(trades[k]))
      /\ DateLeq(EndOf(trades[k]), now)

\* C3: the returned list is in ascending order of startTime, and it holds
\* exactly the trades the loop pushed, each once.
C3_SortedPermutation ==
  (variant = "bars" /\ Returned) =>
    /\ \A k \in 1..(Len(trades) - 1) :
         DateLeq(StartOf(trades[k]), StartOf(trades[k + 1]))
    /\ Len(trades) = numTrades
    /\ \A idx \in 0..(numTrades - 1) :
         Cardinality({k \in 1..Len(trades) :
                        trades[k] = TradeAt(idx, 1 + 6 * idx, now, pair)}) = 1

\* The sort had work to do: a trade pushed later stands before one pushed
\* earlier, with a strictly earlier start.
C3_Witness ==
  /\ variant = "bars" /\ pc = "generated"
  /\ \E k \in 1..(Len(trades) - 1) :
       /\ trades[k].id > trades[k + 1].id
       /\ trades[k].startDay < trades[k + 1].startDay

\* C4 (as claimed): the series has 100 points once returned, consecutive
\* timestamps are exactly 15 minutes apart, and every timestamp lies a whole
\* number of 15-minute steps from the first (one anchor for all of them),
\* also when the clock advances during the loop.
C4_ConstantSpacing ==
  variant = "series" =>
    /\ Returned => Len(data) = NumPoints
    /\ \A k \in 1..(Len(data) - 1) :
         DateDiff(InstantOf(data[k + 1]), InstantOf(data[k])) = StepMs
    /\ \A k \in 1..Len(data) :
         DateDiff(InstantOf(data[k]), InstantOf(data[1])) = (k - 1) * StepMs

C7_MarkerEqualsPrice ==
  variant = "series" =>
    \A k \in 1..Len(data) :
      /\ data[k].openTrade # Null => data[k].openTrade = Some(data[k].price * SubCents)
      /\ data[k].closeTrade # Null => data[k].closeTrade = Some(data[k].price * SubCents)

\* C8: from each base price, the running price after every step and every
\* stored price is strictly positive.
C8_PricesPositive ==
  (variant = "series" /\ pc # "start") =>
    /\ currentPrice > 0
    /\ \A k \in 1..Len(data) : data[k].price > 0

\* The steepest fall: all 100 steps taken from the base price 180, the last
\* stored price below a twentieth of it.
C8_Witness ==
  /\ variant = "series" /\ pc = "generated" /\ pair = "XMR-USDT"
  /\ Len(data) = NumPoints
  /\ data[NumPoints].price * 20 < basePrice(pair) * CentsPerUnit

\* C9: every returned trade lasts a whole number of days between 1 and 8, ends
\* exactly that many 24-hour days after it starts, and covers 3 periods a day.
C9_DurationAndPeriods ==
  (variant = "bars" /\ Returned) =>
    \A k \in 1..Len(trades) :
      /\ trades[k].duration \in 1..8
      /\ DateDiff(EndOf(trades[k]), StartOf(trades[k])) = trades[k].duration * MsPerDay
      /\ trades[k].periods = 3 * trades[k].duration

\* Both the shortest and the longest duration the code draws from these
\* streams were returned in one list.
C9_Witness ==
  /\ variant = "bars" /\ pc = "generated"
  /\ \E k \in 1..Len(trades) : trades[k].duration = 1
  /\ \E k \in 1..Len(trades) : trades[k].duration = 7

\* C10: each loop iteration takes the running price from the unrounded running
\* price of the iteration before, and stores that new running price rounded
\* to cents.
C10_NoRoundingFeedback ==
  [][(variant = "series" /\ pc = "loop") =>
       LET chg == Change(Random(calls + 1), Volatility(Random(calls)), trend)
       IN  /\ currentPrice' = currentPrice + TimesChange(currentPrice, chg)
           /\ Len(data') = Len(data) + 1
           /\ data'[Len(data')].price = RoundToCents(currentPrice')]_vars

\* An iteration is about to run from a running price the stored price rounded
\* away from, where continuing from the stored price would give another result.
C10_Witness ==
  /\ variant = "series" /\ pc = "loop" /\ i >= 1
  /\ LET chg == Change(Random(calls + 1), Volatility(Random(calls)), trend)
         stored == data[i].price * SubCents
     IN  /\ stored # currentPrice
         /\ stored + TimesChange(stored, chg) # currentPrice + TimesChange(currentPrice, chg)

====
